---------------------------- MODULE Spec2Model ----------------------------
(***************************************************************************)
(* A model of main.py, the daily portfolio update agent: the token         *)
(* exchange, the holdings fetch, the per-holding insight call, the message *)
(* composer, the delivery sink, run(), and the weekday scheduler loop.     *)
(*                                                                         *)
(* Python values that come out of JSON are tagged records [tag, val].      *)
(* Python strings that the code takes apart (the insight text, symbols,    *)
(* prices) are sequences of one-character strings.                         *)
(***************************************************************************)
EXTENDS Integers, Sequences, FiniteSets, TLC

VARIABLES
    PERPLEXITY_API_KEY,   \* main.py:32, read once at import
    TWILIO_SID,           \* main.py:34
    TWILIO_AUTH,          \* main.py:35
    TWILIO_FROM,          \* main.py:36
    WHATSAPP_TO,          \* main.py:37
    pc,                   \* where the program is
    resp,                 \* the insight endpoint's answers, one per request
    insight,              \* what ask_perplexity_for_insight did with it
    holdings_json,        \* the holdings response handed to the composer
    composed,             \* what compose_portfolio_message did with it
    token,                \* what the token exchange returned
    calls,                \* how often this run called each external collaborator
    stdout,               \* the messages this run printed
    delivered,            \* the bodies the provider accepted from this run
    sent,                 \* what send_whatsapp returned
    caught,               \* the exception run() caught, "none" if none
    now,                  \* wall clock, in ticks
    next_run,             \* per scheduled job, the tick it is next due
    pending,              \* the runnable jobs run_pending still has to run
    startsToday,          \* per job, the ticks at which it started a run today
    failedToday           \* the jobs of which a run failed today

vars == <<PERPLEXITY_API_KEY, TWILIO_SID, TWILIO_AUTH, TWILIO_FROM, WHATSAPP_TO,
          pc, resp, insight, holdings_json, composed, token, calls, stdout,
          delivered, sent, caught, now, next_run, pending, startsToday,
          failedToday>>

config == <<PERPLEXITY_API_KEY, TWILIO_SID, TWILIO_AUTH, TWILIO_FROM, WHATSAPP_TO>>

(***************************************************************************)
(* Bounds of the model.                                                    *)
(***************************************************************************)
MaxTextLen == 4      \* longest insight text the insight endpoint returns
MaxHoldings == 2     \* longest holdings list
TicksPerDay == 2     \* clock ticks in a day
MaxDays == 10        \* days the clock runs for

(***************************************************************************)
(* Environment variables: os.getenv gives None or a string.                *)
(***************************************************************************)
Unset == "<None>"
EnvVals == {Unset, "", "set"}
EnvTruthy(v) == v # Unset /\ v # ""

(***************************************************************************)
(* JSON values as Python sees them.                                        *)
(***************************************************************************)
J(t, v) == [tag |-> t, val |-> v]
Null == J("null", 0)
IntV(n) == J("int", n)
FloatV(hundredths) == J("float", hundredths)
Str(s) == J("str", s)
List(l) == J("list", l)
Obj(f) == J("obj", f)
NoKeys == [k \in {} |-> Null]
\* The outcome of an expression that raised instead of giving a value.
Raised(e) == J("raise", e)
\* A response body that is not JSON at all.
NotJson == J("notjson", 0)

IsRaised(v) == v.tag = "raise"
IsDict(v) == v.tag = "obj"
IsList(v) == v.tag = "list"
IsStr(v) == v.tag = "str"

\* Python truthiness: bool(v).
Truthy(v) ==
    CASE v.tag = "null" -> FALSE
      [] v.tag = "int" -> v.val # 0
      [] v.tag = "float" -> v.val # 0
      [] v.tag = "str" -> v.val # <<>>
      [] v.tag = "list" -> v.val # <<>>
      [] v.tag = "obj" -> DOMAIN v.val # {}
      [] OTHER -> FALSE

\* v.get(key, default): only a dict has .get, anything else raises
\* AttributeError. A raise inside v propagates.
PyGet(v, key, default) ==
    IF IsRaised(v) THEN v
    ELSE IF ~IsDict(v) THEN Raised("AttributeError")
    ELSE IF key \in DOMAIN v.val THEN v.val[key]
    ELSE default

\* a or b, where b is evaluated only if a is falsy; a raise in a propagates.
PyOr(a, b) == IF IsRaised(a) THEN a ELSE IF Truthy(a) THEN a ELSE b

(***************************************************************************)
(* Text.                                                                   *)
(***************************************************************************)
Whitespace == {" ", "\n"}
Chars == {"a", "!", "."} \cup Whitespace

RECURSIVE SeqsUpTo(_, _)
SeqsUpTo(S, n) ==
    IF n = 0 THEN {<<>>}
    ELSE LET shorter == SeqsUpTo(S, n - 1)
         IN  shorter \cup {Append(s, c) : s \in {t \in shorter : Len(t) = n - 1}, c \in S}

Texts == SeqsUpTo(Chars, MaxTextLen)

\* str.split() with no argument: the maximal runs of non-whitespace.
RECURSIVE SplitFrom(_, _, _)
SplitFrom(s, i, word) ==
    IF i > Len(s) THEN (IF word = <<>> THEN <<>> ELSE <<word>>)
    ELSE IF s[i] \in Whitespace
         THEN (IF word = <<>> THEN <<>> ELSE <<word>>) \o SplitFrom(s, i + 1, <<>>)
         ELSE SplitFrom(s, i + 1, Append(word, s[i]))
Split(s) == SplitFrom(s, 1, <<>>)

\* " ".join(words)
RECURSIVE Join(_)
Join(words) ==
    IF words = <<>> THEN <<>>
    ELSE IF Len(words) = 1 THEN words[1]
    ELSE words[1] \o <<" ">> \o Join(Tail(words))

\* str.strip()
RECURSIVE LStrip(_)
LStrip(s) == IF s # <<>> /\ s[1] \in Whitespace THEN LStrip(Tail(s)) ELSE s
RECURSIVE RStrip(_)
RStrip(s) ==
    IF s # <<>> /\ s[Len(s)] \in Whitespace THEN RStrip(SubSeq(s, 1, Len(s) - 1)) ELSE s
Strip(s) == RStrip(LStrip(s))

EndsWithPeriod(s) == s # <<>> /\ s[Len(s)] = "."

\* main.py:107-108
AppendPeriod(t) == IF EndsWithPeriod(t) THEN t ELSE t \o <<".">>

\* main.py:106-108
NormalizeInsightNoJoin(text) == AppendPeriod(Strip(text))
NormalizeInsight(text) == AppendPeriod(Strip(Join(Split(text))))

(***************************************************************************)
(* ask_perplexity_for_insight                                              *)
(***************************************************************************)
\* What the insight endpoint can do with one request.
InsightResp(status, body) == [status |-> status, body |-> body]
NetworkError == InsightResp("neterr", NotJson)        \* requests.post raises
HttpError == InsightResp("httperr", NotJson)          \* raise_for_status raises
Ok(body) == InsightResp("ok", body)

\* An outcome of the call: the exception it raised ("none" if it returned), the
\* string it returned, and whether it went to the network.
AskResult(exc, ret, net) == [exc |-> exc, ret |-> ret, net |-> net]

\* main.py:100-104: the content of the choice's message if there is any,
\* else the choice's text if there is any, else "".
TextOfChoice(choice) ==
    PyOr(PyGet(PyGet(choice, "message", Obj(NoKeys)), "content", Null),
         PyOr(PyGet(choice, "text", Null), Str(<<>>)))

\* main.py:99-104
TextOfChoices(choices) ==
    IF IsRaised(choices) THEN choices
    ELSE IF Truthy(choices) /\ IsList(choices) THEN TextOfChoice(choices.val[1])
    ELSE Str(<<>>)

\* main.py:97-104, given the parsed body: the value bound to text.
ExtractText(data) == TextOfChoices(PyGet(data, "choices", List(<<>>)))

\* main.py:106-109: text.split() needs a string.
ReturnTextEmptyStaysEmpty(text) ==
    IF IsRaised(text) THEN AskResult(text.val, <<>>, TRUE)
    ELSE IF ~IsStr(text) THEN AskResult("AttributeError", <<>>, TRUE)
    ELSE IF text.val = <<>> THEN AskResult("none", <<>>, TRUE)
    ELSE AskResult("none", NormalizeInsight(text.val), TRUE)
ReturnText(text) ==
    IF IsRaised(text) THEN AskResult(text.val, <<>>, TRUE)
    ELSE IF ~IsStr(text) THEN AskResult("AttributeError", <<>>, TRUE)
    ELSE AskResult("none", NormalizeInsight(text.val), TRUE)

\* main.py:96-109, the part after the request succeeded.
AfterRequest(body) ==
    IF body = NotJson THEN AskResult("JSONDecodeError", <<>>, TRUE)
    ELSE ReturnText(ExtractText(body))

\* main.py:66-109
AskWithoutKeyCheck(key, r) ==
    IF r.status # "ok" THEN AskResult("none", <<>>, TRUE)
    ELSE AfterRequest(r.body)
ask_perplexity_for_insight(key, r) ==
    IF ~EnvTruthy(key) THEN AskResult("none", <<>>, FALSE)
    ELSE IF r.status # "ok" THEN AskResult("none", <<>>, TRUE)
    ELSE AfterRequest(r.body)

\* The answers the insight endpoint can give, with texts drawn from T.
Absent == J("absent", 0)
ObjOf(f) == Obj([k \in {k \in DOMAIN f : f[k] # Absent} |-> f[k]])
Content(v) == ObjOf([k \in {"content"} |-> v])
Choice(m, t) == ObjOf([k \in {"message", "text"} |-> IF k = "message" THEN m ELSE t])
Scalars == {Null, IntV(5), Str(<<"a">>)}
MessageVals(T) ==
    {Absent, Obj(NoKeys), Content(Str(<<>>))} \cup Scalars
        \cup {Content(v) : v \in Scalars} \cup {Content(Str(t)) : t \in T}
TextVals(T) == {Absent, Str(<<>>)} \cup Scalars \cup {Str(t) : t \in T}
Choices(T) ==
    Scalars
        \cup {Choice(m, t) : m \in MessageVals(T), t \in {Absent, Str(<<"a">>)}}
        \cup {Choice(m, t) : m \in {Absent, Obj(NoKeys), Content(Str(<<>>))}, t \in TextVals(T)}
ChoicesVals(T) ==
    {Absent, List(<<>>), Obj(NoKeys)} \cup Scalars \cup {List(<<c>>) : c \in Choices(T)}
Bodies(T) ==
    {NotJson, List(<<>>)} \cup Scalars
        \cup {ObjOf([k \in {"choices"} |-> c]) : c \in ChoicesVals(T)}
InsightResps(T) == {NetworkError, HttpError} \cup {Ok(b) : b \in Bodies(T)}

\* A body the code reads without raising: an object whose choices, if any, is
\* a list of objects, whose message, if any, is an object, and whose content
\* and text, if any, are strings.
WellFormedChoice(c) ==
    /\ IsDict(c)
    /\ "message" \in DOMAIN c.val =>
          /\ IsDict(c.val["message"])
          /\ "content" \in DOMAIN c.val["message"].val =>
                IsStr(c.val["message"].val["content"])
    /\ "text" \in DOMAIN c.val => IsStr(c.val["text"])
WellFormedBody(b) ==
    /\ IsDict(b)
    /\ "choices" \in DOMAIN b.val =>
          /\ IsList(b.val["choices"])
          /\ \A i \in DOMAIN b.val["choices"].val : WellFormedChoice(b.val["choices"].val[i])

(***************************************************************************)
(* compose_portfolio_message                                               *)
(***************************************************************************)
\* Number and symbol formatting.
DigitChars == <<"0", "1", "2", "3", "4", "5", "6", "7", "8", "9">>
IsDigit(c) == \E d \in DOMAIN DigitChars : DigitChars[d] = c
DigitVal(c) == (CHOOSE d \in DOMAIN DigitChars : DigitChars[d] = c) - 1

RECURSIVE IntToStr(_)
IntToStr(n) ==
    IF n < 10 THEN <<DigitChars[n + 1]>>
    ELSE IntToStr(n \div 10) \o <<DigitChars[(n % 10) + 1]>>

\* f"{x:.2f}" of a non-negative number given in hundredths.
Format2f(h) ==
    IntToStr(h \div 100) \o <<".", DigitChars[((h \div 10) % 10) + 1], DigitChars[(h % 10) + 1]>>

\* str(x) of a non-negative float given in hundredths: 3250.5, 10.0, 1.25.
FloatToStr(h) ==
    IntToStr(h \div 100) \o <<".">>
        \o (IF h % 10 = 0 THEN <<DigitChars[((h \div 10) % 10) + 1]>>
            ELSE <<DigitChars[((h \div 10) % 10) + 1], DigitChars[(h % 10) + 1]>>)

RECURSIVE DigitsToInt(_)
DigitsToInt(s) ==
    IF s = <<>> THEN 0
    ELSE 10 * DigitsToInt(SubSeq(s, 1, Len(s) - 1)) + DigitVal(s[Len(s)])

\* float(s) of a string of digits with at most one point and at most two
\* digits after it, in hundredths; -1 when float(s) raises ValueError.
ParseFloat(s) ==
    LET points == {i \in DOMAIN s : s[i] = "."}
        p == IF points = {} THEN Len(s) + 1 ELSE CHOOSE i \in points : TRUE
        whole == SubSeq(s, 1, p - 1)
        frac == SubSeq(s, p + 1, Len(s))
    IN  IF \/ Cardinality(points) > 1
           \/ \E i \in DOMAIN s : ~IsDigit(s[i]) /\ s[i] # "."
           \/ whole = <<>> /\ frac = <<>>
           \/ Len(frac) > 2
        THEN -1
        ELSE 100 * DigitsToInt(whole)
                + (IF Len(frac) = 1 THEN 10 * DigitsToInt(frac) ELSE DigitsToInt(frac))

\* main.py:133-136: float(avg_price), 0.0 when it raises.
OrZero(h) == IF h < 0 THEN 0 ELSE h
ToFloat(v) ==
    CASE v.tag = "int" -> 100 * v.val
      [] v.tag = "float" -> v.val
      [] v.tag = "str" -> OrZero(ParseFloat(v.val))
      [] OTHER -> 0

\* str(v) as an f-string field prints it.
PyStr(v) ==
    CASE v.tag = "int" -> IntToStr(v.val)
      [] v.tag = "float" -> FloatToStr(v.val)
      [] v.tag = "str" -> v.val

Upper(c) ==
    CASE c = "t" -> "T" [] c = "c" -> "C" [] c = "s" -> "S" [] c = "i" -> "I"
      [] c = "n" -> "N" [] c = "f" -> "F" [] c = "y" -> "Y" [] c = "b" -> "B"
      [] OTHER -> c
StrUpper(s) == [i \in DOMAIN s |-> Upper(s[i])]

\* Literal text of main.py. The three non-ASCII characters are spelled out.
Title == <<"<chart emoji> Daily Portfolio Update", "\n">>       \* main.py:115
NoHoldingsFound == <<"No holdings found.">>                     \* main.py:127
Placeholder == <<"  (No update available)">>                    \* main.py:144
HeaderLine(symbol, qty, avg) ==                                 \* main.py:138
    <<"<bullet> ">> \o StrUpper(symbol) \o <<" | Qty: ">> \o PyStr(qty)
        \o <<" | Avg: <rupee>">> \o Format2f(avg)
InsightLine(text) == <<" ", " ">> \o text                        \* main.py:142

\* main.py:119-121
NestedHoldings(hj) ==
    PyOr(PyGet(PyGet(hj, "payload", Obj(NoKeys)), "holdings", Null),
         PyOr(PyGet(PyGet(hj, "data", Obj(NoKeys)), "holdings", Null),
              PyGet(hj, "holdings", Null)))

\* main.py:122-127, first being what main.py:117-121 bound to holdings_list
\* and payload what holdings_json.get("payload") gives.
ResolveList(first, payload) ==
    IF IsRaised(first) THEN first
    ELSE IF IsList(first) THEN first
    ELSE IF IsRaised(payload) THEN payload
    ELSE IF IsList(payload) THEN payload
    ELSE Null

\* An outcome of extracting the list, main.py:117-127: List(l), Null when
\* the code returns "No holdings found.", or Raised(e).
ExtractHoldings(hj) ==
    ResolveList(IF IsDict(hj) THEN NestedHoldings(hj) ELSE Null, PyGet(hj, "payload", Null))

\* An outcome of the composer: the exception it raised ("none" if it
\* returned), the lines it had appended, the string it returned, and the
\* insight requests it sent.
ComposeResult(exc, lines, ret, nets) ==
    [exc |-> exc, lines |-> lines, ret |-> ret, nets |-> nets]

\* main.py:130-132
SymbolOf(h) ==
    PyOr(PyGet(h, "trading_symbol", Null),
         PyOr(PyGet(h, "symbol", Null),
              PyOr(PyGet(h, "ticker", Null), Str(<<"Unknown">>))))
QtyOf(h) == PyOr(PyGet(h, "quantity", Null), PyOr(PyGet(h, "qty", Null), IntV(0)))
AvgPriceOf(h) ==
    PyOr(PyGet(h, "average_price", Null), PyOr(PyGet(h, "avg_price", Null), FloatV(0)))

Calls(ask) == IF ask.net THEN 1 ELSE 0

\* main.py:140-146
BlockWith(header, ask) ==
    IF ask.exc # "none" THEN ComposeResult(ask.exc, <<header>>, <<>>, Calls(ask))
    ELSE IF ask.ret # <<>>
    THEN ComposeResult("none", <<header, InsightLine(ask.ret), <<>>>>, <<>>, Calls(ask))
    ELSE ComposeResult("none", <<header, Placeholder, <<>>>>, <<>>, Calls(ask))

\* main.py:130-146 for one holding, the insight endpoint answering r.
BlockFor(symbol, qty, avg, key, r) ==
    IF IsRaised(symbol) THEN ComposeResult(symbol.val, <<>>, <<>>, 0)
    ELSE IF ~IsStr(symbol) THEN ComposeResult("AttributeError", <<>>, <<>>, 0)
    ELSE BlockWith(HeaderLine(symbol.val, qty, ToFloat(avg)),
                   ask_perplexity_for_insight(key, r))
HoldingBlock(key, h, r) == BlockFor(SymbolOf(h), QtyOf(h), AvgPriceOf(h), key, r)

\* The lines of one holding followed by those of the rest of the loop.
Then(b, rest) == ComposeResult(rest.exc, b.lines \o rest.lines, <<>>, b.nets + rest.nets)

\* main.py:129-146: the loop, holding i answered by rs[i].
RECURSIVE ComposeLoop(_, _, _, _)
LoopFrom(b, key, list, rs, i) ==
    IF b.exc # "none" THEN b ELSE Then(b, ComposeLoop(key, list, rs, i + 1))
ComposeLoop(key, list, rs, i) ==
    IF i > Len(list) THEN ComposeResult("none", <<>>, <<>>, 0)
    ELSE LoopFrom(HoldingBlock(key, list[i], rs[i]), key, list, rs, i)

\* "\n".join(lines)
RECURSIVE JoinLines(_)
JoinLines(lines) ==
    IF lines = <<>> THEN <<>>
    ELSE IF Len(lines) = 1 THEN lines[1]
    ELSE lines[1] \o <<"\n">> \o JoinLines(Tail(lines))

\* main.py:148, or the exception the loop raised.
ReturnMessage(loop) ==
    IF loop.exc # "none" THEN ComposeResult(loop.exc, <<Title>> \o loop.lines, <<>>, loop.nets)
    ELSE ComposeResult("none", <<Title>> \o loop.lines,
                       Strip(JoinLines(<<Title>> \o loop.lines)), loop.nets)

\* main.py:122-148, found being the outcome of extracting the list.
ComposeFound(key, found, rs) ==
    IF IsRaised(found) THEN ComposeResult(found.val, <<Title>>, <<>>, 0)
    ELSE IF ~IsList(found) THEN ComposeResult("none", <<Title>>, NoHoldingsFound, 0)
    ELSE ReturnMessage(ComposeLoop(key, found.val, rs, 1))

\* main.py:113-148
compose_portfolio_message(key, hj, rs) == ComposeFound(key, ExtractHoldings(hj), rs)

\* The holdings the brokerage can return: the fields under each of their
\* names, a price as a number or as a string, a holding with no fields, a
\* holding that is not an object, a symbol that is not a string.
H_TCS ==
    Obj("symbol" :> Str(<<"t", "c", "s">>) @@ "quantity" :> IntV(10)
            @@ "average_price" :> FloatV(325050))
H_INFY ==
    Obj("trading_symbol" :> Str(<<"i", "n", "f", "y">>) @@ "qty" :> Str(<<"5">>)
            @@ "avg_price" :> Str(<<"1", "2", "3", ".", "4">>))
H_SBI ==
    Obj("ticker" :> Str(<<"s", "b", "i">>) @@ "quantity" :> IntV(3)
            @@ "average_price" :> Str(<<"N", "/", "A">>))
H_EMPTY == Obj(NoKeys)
H_NOT_OBJECT == Str(<<"t", "c", "s">>)
H_BAD_SYMBOL == Obj("symbol" :> IntV(7))
Holdings == {H_TCS, H_INFY, H_SBI, H_EMPTY, H_NOT_OBJECT, H_BAD_SYMBOL}
HoldingLists == SeqsUpTo(Holdings, MaxHoldings)

\* The shapes of a holdings response: every combination of what can sit
\* under payload, data and holdings, over the lists Ls.
ShapeLists == {<<>>, <<H_TCS>>, <<H_INFY, H_TCS>>}
HoldingsVals(Ls) == {Absent} \cup Scalars \cup {List(l) : l \in Ls}
ContainerVals(Ls) ==
    {Absent, Obj(NoKeys)} \cup Scalars \cup {List(l) : l \in Ls}
        \cup {ObjOf([k \in {"holdings"} |-> v]) : v \in HoldingsVals(Ls) \ {Absent}}
Shape(p, d, h) ==
    ObjOf([k \in {"payload", "data", "holdings"} |->
              IF k = "payload" THEN p ELSE IF k = "data" THEN d ELSE h])
HoldingsResponses ==
    {Shape(p, d, h) : p \in ContainerVals(ShapeLists), d \in ContainerVals(ShapeLists),
                      h \in HoldingsVals(ShapeLists)}
        \cup Scalars
        \cup {List(l) : l \in ShapeLists}
        \cup {Shape(Absent, Absent, List(l)) : l \in HoldingLists}

\* The answers of the insight endpoint during a run.
GoodBody(t) == ObjOf([k \in {"choices"} |-> List(<<Choice(Content(Str(t)), Absent)>>)])
RunResps ==
    {NetworkError, HttpError, Ok(NotJson), Ok(List(<<>>)), Ok(Obj(NoKeys)),
     Ok(ObjOf([k \in {"choices"} |-> List(<<Str(<<"a">>)>>)])),
     Ok(ObjOf([k \in {"choices"} |-> List(<<Choice(Content(Str(<<>>)), Absent)>>)])),
     Ok(GoodBody(<<"a", " ", " ", "a">>))}
NoAnswers(n) == [i \in 1..n |-> NetworkError]
\* One answer per request; no request is sent without a key.
AnswersFor(key, n, R) ==
    IF EnvTruthy(key) THEN [1..n -> R] ELSE {NoAnswers(n)}

(***************************************************************************)
(* get_groww_access_token, fetch_holdings                                  *)
(***************************************************************************)
\* What the SDK's token exchange can do: return a token, return an empty
\* one or None, or raise.
SdkRaises == "<raises>"
TokenOutcomes == {"tok", "", Unset, SdkRaises}

\* main.py:44-50: the token returned, or Raised(e).
GetTokenUnchecked(outcome) ==
    IF outcome = SdkRaises THEN Raised("GrowwAPIException") ELSE Str(<<outcome>>)
get_groww_access_token(outcome) ==
    IF outcome = SdkRaises THEN Raised("GrowwAPIException")
    ELSE IF ~EnvTruthy(outcome) THEN Raised("RuntimeError")
    ELSE Str(<<outcome>>)

\* main.py:53-62: the parsed body, or Raised(e).
fetch_holdings(r) ==
    IF r.status = "neterr" THEN Raised("ConnectionError")
    ELSE IF r.status = "httperr" THEN Raised("HTTPError")
    ELSE IF r.body = NotJson THEN Raised("JSONDecodeError")
    ELSE r.body

(***************************************************************************)
(* send_whatsapp                                                           *)
(***************************************************************************)
ProviderOutcomes == {"accepted", "error"}
SendResult(ret, printed, accepted, attempted) ==
    [ret |-> ret, printed |-> printed, accepted |-> accepted, attempted |-> attempted]

\* main.py:152-165: what it returned, printed, got accepted by the
\* provider, and whether it called the provider.
SendAnyCredential(sid, auth, from, to, body, provider) ==
    IF EnvTruthy(sid) \/ EnvTruthy(auth) \/ EnvTruthy(from) \/ EnvTruthy(to)
    THEN IF provider = "accepted"
         THEN SendResult("SM1", <<>>, <<body>>, TRUE)
         ELSE SendResult(Unset, <<body>>, <<>>, TRUE)
    ELSE SendResult(Unset, <<body>>, <<>>, FALSE)
SendNoFallback(sid, auth, from, to, body, provider) ==
    IF EnvTruthy(sid) /\ EnvTruthy(auth) /\ EnvTruthy(from) /\ EnvTruthy(to)
    THEN IF provider = "accepted"
         THEN SendResult("SM1", <<>>, <<body>>, TRUE)
         ELSE SendResult(Unset, <<>>, <<>>, TRUE)
    ELSE SendResult(Unset, <<body>>, <<>>, FALSE)
send_whatsapp(sid, auth, from, to, body, provider) ==
    IF EnvTruthy(sid) /\ EnvTruthy(auth) /\ EnvTruthy(from) /\ EnvTruthy(to)
    THEN IF provider = "accepted"
         THEN SendResult("SM1", <<>>, <<body>>, TRUE)
         ELSE SendResult(Unset, <<body>>, <<>>, TRUE)
    ELSE SendResult(Unset, <<body>>, <<>>, FALSE)


(***************************************************************************)
(* run()                                                                   *)
(***************************************************************************)
\* The exceptions the pipeline raises; all derive from Exception.
Exceptions ==
    {"RuntimeError", "GrowwAPIException", "ConnectionError", "HTTPError",
     "JSONDecodeError", "AttributeError"}

\* main.py:177: except Exception.
CaughtOnlyRuntimeError(e) == e = "RuntimeError"
CaughtByRun(e) == e \in Exceptions

NoCalls == [auth |-> 0, fetch |-> 0, insight |-> 0, provider |-> 0]
Unbound == "<unbound>"
NotComposed == ComposeResult(Unbound, <<>>, <<>>, 0)
NotAsked == AskResult(Unbound, <<>>, FALSE)

\* The locals and effects of a run before it starts.
FreshRun ==
    /\ token = Str(<<Unbound>>)
    /\ holdings_json = Absent
    /\ composed = NotComposed
    /\ sent = Unbound
    /\ caught = "none"
    /\ calls = NoCalls
    /\ stdout = <<>>
    /\ delivered = <<>>

\* An exception e raised inside the try block of run(), main.py:171-178.
Raise(e) ==
    /\ pc' = IF CaughtByRun(e) THEN "failed" ELSE "crashed"
    /\ caught' = IF CaughtByRun(e) THEN e ELSE "none"

scheduler == <<now, next_run, pending, startsToday>>

\* main.py:172
Auth(outcomes) ==
    /\ pc = "auth"
    /\ \E o \in outcomes :
          LET t == get_groww_access_token(o)
          IN  /\ calls' = [calls EXCEPT !.auth = @ + 1]
              /\ IF IsRaised(t)
                 THEN Raise(t.val) /\ UNCHANGED token
                 ELSE token' = t /\ pc' = "fetch" /\ UNCHANGED caught
    /\ UNCHANGED <<config, resp, insight, holdings_json, composed, stdout, delivered,
                   sent, scheduler, failedToday>>

\* main.py:173
Fetch(answers) ==
    /\ pc = "fetch"
    /\ \E r \in answers :
          LET h == fetch_holdings(r)
          IN  /\ calls' = [calls EXCEPT !.fetch = @ + 1]
              /\ IF IsRaised(h)
                 THEN Raise(h.val) /\ UNCHANGED holdings_json
                 ELSE holdings_json' = h /\ pc' = "compose" /\ UNCHANGED caught
    /\ UNCHANGED <<config, resp, insight, token, composed, stdout, delivered, sent,
                   scheduler, failedToday>>

\* The requests the composer sends for a holdings response: one per holding.
Requests(found) == IF IsList(found) THEN Len(found.val) ELSE 0

\* main.py:174-175, c being what the composer did.
Composed(rs, c) ==
    /\ resp' = rs
    /\ composed' = c
    /\ calls' = [calls EXCEPT !.insight = @ + c.nets]
    /\ IF c.exc # "none"
       THEN Raise(c.exc)
       ELSE pc' = "send" /\ UNCHANGED caught

Compose(R) ==
    /\ pc = "compose"
    /\ \E rs \in AnswersFor(PERPLEXITY_API_KEY, Requests(ExtractHoldings(holdings_json)), R) :
          Composed(rs, compose_portfolio_message(PERPLEXITY_API_KEY, holdings_json, rs))
    /\ UNCHANGED <<config, insight, holdings_json, token, stdout, delivered, sent,
                   scheduler, failedToday>>

\* main.py:176
Send ==
    /\ pc = "send"
    /\ \E provider \in ProviderOutcomes :
          LET r == send_whatsapp(TWILIO_SID, TWILIO_AUTH, TWILIO_FROM, WHATSAPP_TO,
                                 composed.ret, provider)
          IN  /\ sent' = r.ret
              /\ stdout' = stdout \o r.printed
              /\ delivered' = delivered \o r.accepted
              /\ calls' = [calls EXCEPT !.provider = @ + (IF r.attempted THEN 1 ELSE 0)]
    /\ pc' = "done"
    /\ UNCHANGED <<config, resp, insight, holdings_json, composed, token, caught,
                   scheduler, failedToday>>

\* A call of ask_perplexity_for_insight on its own, main.py:66-109.
Ask ==
    /\ pc = "ask"
    /\ insight' = ask_perplexity_for_insight(PERPLEXITY_API_KEY, resp[1])
    /\ pc' = "asked"
    /\ UNCHANGED <<config, resp, holdings_json, composed, token, calls, stdout,
                   delivered, sent, caught, scheduler, failedToday>>

(***************************************************************************)
(* The scheduler loop, main.py:182-200                                     *)
(***************************************************************************)
DaysPerWeek == 7
AtTick == 1          \* the tick of the day that starts at 19:00
Jobs == 0..4         \* monday .. friday, as datetime.weekday() numbers them

Day(t) == t \div TicksPerDay
Weekday(t) == Day(t) % DaysPerWeek
TickOfDay(t) == t % TicksPerDay

\* schedule's Job._schedule_next_run for every().<weekday>.at("19:00"), run
\* at tick t: 19:00 of the next day that is weekday j, today included, and
\* a week later if that is not after t.
NextRun(j, t) ==
    LET at == (Day(t) + ((j - Weekday(t)) % DaysPerWeek)) * TicksPerDay + AtTick
    IN  IF at <= t THEN at + DaysPerWeek * TicksPerDay ELSE at

\* Job.should_run
ShouldRun(j) == now >= next_run[j]

\* sorted(jobs that should run): jobs order by next_run.
RECURSIVE SortByNextRun(_)
SortByNextRun(js) ==
    IF js = {} THEN <<>>
    ELSE LET first == CHOOSE j \in js : \A k \in js : next_run[j] <= next_run[k]
         IN  <<first>> \o SortByNextRun(js \ {first})

NoStarts == [j \in Jobs |-> <<>>]

run_locals == <<token, holdings_json, composed, sent, caught, calls, stdout, delivered>>

\* Time passes: while a run waits for one of its collaborators, for as
\* long as that takes, or while the loop sleeps, which it does for 30
\* seconds at a time (main.py:200) and so never past a job that is due.
Blocking == {"auth", "fetch", "compose", "send"}
Tick ==
    /\ now < MaxDays * TicksPerDay - 1
    /\ pc \in Blocking \/ (pc = "loop" /\ \A j \in Jobs : ~ShouldRun(j))
    /\ now' = now + 1
    /\ startsToday' = IF Day(now + 1) # Day(now) THEN NoStarts ELSE startsToday
    /\ failedToday' = IF Day(now + 1) # Day(now) THEN {} ELSE failedToday
    /\ UNCHANGED <<config, pc, resp, insight, run_locals, next_run, pending>>

\* main.py:199, schedule.run_pending() finding jobs to run.
RunPending ==
    /\ pc = "loop"
    /\ {j \in Jobs : ShouldRun(j)} # {}
    /\ pending' = SortByNextRun({j \in Jobs : ShouldRun(j)})
    /\ pc' = "job"
    /\ UNCHANGED <<config, resp, insight, run_locals, now, next_run, startsToday,
                   failedToday>>

\* main.py:185-188 and 169-171: job() calls run().
StartJob ==
    /\ pc = "job"
    /\ startsToday' = [startsToday EXCEPT ![Head(pending)] = Append(@, now)]
    /\ pc' = "auth"
    /\ UNCHANGED <<config, resp, insight, run_locals, now, next_run, pending, failedToday>>

\* run() returns to job(), its locals are gone, and schedule records the run
\* and schedules the job's next one.
FinishJob ==
    /\ pc \in {"done", "failed"}
    /\ pending # <<>>
    /\ failedToday' = IF pc = "failed" THEN failedToday \cup {Head(pending)} ELSE failedToday
    /\ next_run' = [next_run EXCEPT ![Head(pending)] = NextRun(Head(pending), now)]
    /\ pending' = Tail(pending)
    /\ pc' = IF Tail(pending) = <<>> THEN "loop" ELSE "job"
    /\ token' = Str(<<Unbound>>)
    /\ holdings_json' = Absent
    /\ composed' = NotComposed
    /\ sent' = Unbound
    /\ caught' = "none"
    /\ calls' = NoCalls
    /\ stdout' = <<>>
    /\ delivered' = <<>>
    /\ resp' = <<>>
    /\ UNCHANGED <<config, insight, now, startsToday>>

(***************************************************************************)
(* Specifications                                                          *)
(***************************************************************************)
SchedulerAtStart(t) ==
    /\ now = t
    /\ next_run = [j \in Jobs |-> NextRun(j, t)]     \* main.py:191-195
    /\ pending = <<>>
    /\ startsToday = NoStarts
    /\ failedToday = {}

\* One call of run(), under every configuration of the environment.
RunHoldings ==
    {Shape(Absent, Absent, List(<<H_TCS>>)),
     Shape(ObjOf([k \in {"holdings"} |-> List(<<H_INFY, H_TCS>>)]), Absent, Absent),
     Shape(List(<<H_TCS>>), Absent, Absent),
     Shape(Absent, Absent, List(<<H_NOT_OBJECT>>)),
     Obj(NoKeys),
     Null}
RunFetchAnswers == {NetworkError, HttpError, Ok(NotJson)} \cup {Ok(h) : h \in RunHoldings}

Init ==
    /\ PERPLEXITY_API_KEY \in EnvVals
    /\ TWILIO_SID \in EnvVals
    /\ TWILIO_AUTH \in EnvVals
    /\ TWILIO_FROM \in EnvVals
    /\ WHATSAPP_TO \in EnvVals
    /\ pc = "auth"
    /\ resp = <<>>
    /\ insight = NotAsked
    /\ FreshRun
    /\ SchedulerAtStart(0)

Next ==
    \/ Auth(TokenOutcomes)
    \/ Fetch(RunFetchAnswers)
    \/ Compose(RunResps)
    \/ Send

Spec == Init /\ [][Next]_vars

\* One call of ask_perplexity_for_insight, on every answer of the endpoint.
InitInsight ==
    /\ PERPLEXITY_API_KEY \in EnvVals
    /\ TWILIO_SID = Unset
    /\ TWILIO_AUTH = Unset
    /\ TWILIO_FROM = Unset
    /\ WHATSAPP_TO = Unset
    /\ pc = "ask"
    /\ resp \in {<<r>> : r \in InsightResps(Texts)}
    /\ insight = NotAsked
    /\ FreshRun
    /\ SchedulerAtStart(0)

NextInsight == Ask

SpecInsight == InitInsight /\ [][NextInsight]_vars

\* One call of compose_portfolio_message, on every holdings response.
InitCompose ==
    /\ PERPLEXITY_API_KEY \in EnvVals
    /\ TWILIO_SID = Unset
    /\ TWILIO_AUTH = Unset
    /\ TWILIO_FROM = Unset
    /\ WHATSAPP_TO = Unset
    /\ pc = "compose"
    /\ resp = <<>>
    /\ insight = NotAsked
    /\ token = Str(<<"tok">>)
    /\ holdings_json \in HoldingsResponses
    /\ composed = NotComposed
    /\ sent = Unbound
    /\ caught = "none"
    /\ calls = [NoCalls EXCEPT !.auth = 1, !.fetch = 1]
    /\ stdout = <<>>
    /\ delivered = <<>>
    /\ SchedulerAtStart(0)

NextCompose == Compose(RunResps)

SpecCompose == InitCompose /\ [][NextCompose]_vars

\* The scheduler loop, started at any time of the week.
SchedTokenOutcomes == {"tok", Unset}
SchedFetchAnswers == {NetworkError, Ok(Shape(Absent, Absent, List(<<H_TCS>>)))}
SchedResps == {NetworkError, Ok(NotJson), Ok(GoodBody(<<"a">>))}

InitSched ==
    /\ PERPLEXITY_API_KEY \in {Unset, "set"}
    /\ TWILIO_SID = PERPLEXITY_API_KEY
    /\ TWILIO_AUTH = PERPLEXITY_API_KEY
    /\ TWILIO_FROM = PERPLEXITY_API_KEY
    /\ WHATSAPP_TO = PERPLEXITY_API_KEY
    /\ pc = "loop"
    /\ resp = <<>>
    /\ insight = NotAsked
    /\ FreshRun
    /\ \E t \in 0..(DaysPerWeek * TicksPerDay - 1) : SchedulerAtStart(t)

NextSched ==
    \/ Tick
    \/ RunPending
    \/ StartJob
    \/ Auth(SchedTokenOutcomes)
    \/ Fetch(SchedFetchAnswers)
    \/ Compose(SchedResps)
    \/ Send
    \/ FinishJob

SpecSched == InitSched /\ [][NextSched]_vars


(***************************************************************************)
(* Properties                                                              *)
(***************************************************************************)
AfterCompose == composed # NotComposed

\* C1 (the claim as stated). A run whose composer would complete with no
\* insight key configured completes for every answer of the insight
\* endpoint too: no answer makes the composer raise, and run() goes on to
\* send_whatsapp.
C1_InsightNeverAbortsRun ==
    (/\ AfterCompose
     /\ compose_portfolio_message(Unset, holdings_json, NoAnswers(Len(resp))).exc = "none")
        => composed.exc = "none" /\ pc \in {"send", "done"}

\* The four nestings of a list L that the composer is to accept.
NestingsOf(L) ==
    {Shape(ObjOf([k \in {"holdings"} |-> List(L)]), Absent, Absent),
     Shape(Absent, ObjOf([k \in {"holdings"} |-> List(L)]), Absent),
     Shape(Absent, Absent, List(L)),
     Shape(List(L), Absent, Absent)}

\* C2 (the claim as stated). For a non-empty list L, the composer extracts
\* L from each of payload.holdings, data.holdings, holdings and payload
\* itself, and returns what it returns for L under holdings.
C2_SameOutputForEveryNesting ==
    AfterCompose =>
        \A L \in (HoldingLists \cup ShapeLists) \ {<<>>} :
            holdings_json \in NestingsOf(L) =>
                /\ ExtractHoldings(holdings_json) = List(L)
                /\ composed = compose_portfolio_message(PERPLEXITY_API_KEY,
                                  Shape(Absent, Absent, List(L)), resp)

\* What sits at a key of a response, Absent when the response is no object
\* or has no such key.
At(v, k) == IF IsDict(v) /\ k \in DOMAIN v.val THEN v.val[k] ELSE Absent
NoListOnAnyPath(hj) ==
    /\ ~IsList(At(At(hj, "payload"), "holdings"))
    /\ ~IsList(At(At(hj, "data"), "holdings"))
    /\ ~IsList(At(hj, "holdings"))
    /\ ~IsList(At(hj, "payload"))

\* C3 (the claim as stated). A response with no list on any of the four
\* paths makes the composer return exactly "No holdings found." without
\* raising.
C3_NoListGivesNoHoldingsFound ==
    (AfterCompose /\ NoListOnAnyPath(holdings_json)) =>
        composed.exc = "none" /\ composed.ret = NoHoldingsFound

\* The insight call went to the endpoint, got a success status, and returned.
ReturnedFromSuccess ==
    /\ pc = "asked"
    /\ EnvTruthy(PERPLEXITY_API_KEY)
    /\ resp[1].status = "ok"
    /\ insight.exc = "none"

WhitespaceNormalized(s) ==
    \A i \in DOMAIN s :
        s[i] \in Whitespace =>
            s[i] = " " /\ 1 < i /\ i < Len(s) /\ s[i + 1] \notin Whitespace

RECURSIVE TrailingPeriods(_)
TrailingPeriods(s) ==
    IF s # <<>> /\ s[Len(s)] = "." THEN 1 + TrailingPeriods(SubSeq(s, 1, Len(s) - 1))
    ELSE 0

\* The text the endpoint sent, and the periods it ends in once its trailing
\* whitespace is dropped.
SentText == ExtractText(resp[1].body).val
SentPeriods == TrailingPeriods(RStrip(SentText))

\* C4 (the claim as stated). Every text returned from a successful response
\* is whitespace-normalized and ends with exactly one period.
C4_ExactlyOneTrailingPeriod ==
    ReturnedFromSuccess =>
        WhitespaceNormalized(insight.ret) /\ TrailingPeriods(insight.ret) = 1

\* C4 (amended). Every text returned from a successful response is
\* whitespace-normalized and ends with a period: with exactly one when the
\* text sent ends in none or one, and with the text's own periods when it
\* ends in several.
C4_EndsWithPeriod ==
    ReturnedFromSuccess =>
        /\ WhitespaceNormalized(insight.ret)
        /\ EndsWithPeriod(insight.ret)
        /\ TrailingPeriods(insight.ret) = IF SentPeriods = 0 THEN 1 ELSE SentPeriods

\* A text with a run of whitespace inside and no period came back
\* collapsed and with a period.
C4_Witness ==
    /\ ReturnedFromSuccess
    /\ SentText = <<"a", " ", "\n", "a">>
    /\ insight.ret = <<"a", " ", "a", ".">>

NothingAfterFetch ==
    /\ calls.insight = 0
    /\ composed = NotComposed
    /\ calls.provider = 0
    /\ stdout = <<>>
    /\ delivered = <<>>
    /\ sent = Unbound

\* C5. A run in which the token exchange gives no token stops there: no
\* holdings fetch, no insight call, no composition, no send, no output. A
\* run in which the holdings fetch fails stops there likewise. In both the
\* exception is caught inside run().
C5_FatalStageStopsRun ==
    /\ pc # "crashed"
    /\ (pc # "auth" /\ token # Str(<<"tok">>)) =>
          /\ pc = "failed"
          /\ caught \in Exceptions
          /\ calls.fetch = 0
          /\ holdings_json = Absent
          /\ NothingAfterFetch
    /\ (calls.fetch > 0 /\ holdings_json = Absent) =>
          /\ pc = "failed"
          /\ caught \in Exceptions
          /\ NothingAfterFetch

\* The holdings fetch failed with an HTTP error and the run stopped.
C5_Witness ==
    /\ pc = "failed"
    /\ caught = "HTTPError"
    /\ calls.fetch = 1
    /\ token = Str(<<"tok">>)

\* C6. Once send_whatsapp has been called the message has gone out exactly
\* once and nothing was raised: accepted by the provider, the identifier
\* returned and nothing printed; or printed once and None returned, which
\* is what happens when the provider fails.
C6_MessageGoesOutOnce ==
    pc = "done" =>
        /\ caught = "none"
        /\ Len(stdout) + Len(delivered) = 1
        /\ delivered # <<>> => delivered = <<composed.ret>> /\ sent = "SM1"
        /\ stdout # <<>> => stdout = <<composed.ret>> /\ sent = Unset
        /\ (calls.provider = 1 /\ delivered = <<>>) => stdout = <<composed.ret>>

\* The provider was called, failed, and the message was printed.
C6_Witness ==
    /\ pc = "done"
    /\ calls.provider = 1
    /\ delivered = <<>>
    /\ stdout = <<composed.ret>>

AllCredentials ==
    /\ EnvTruthy(TWILIO_SID)
    /\ EnvTruthy(TWILIO_AUTH)
    /\ EnvTruthy(TWILIO_FROM)
    /\ EnvTruthy(WHATSAPP_TO)

\* C7. With any of the four messaging credentials missing or empty,
\* send_whatsapp does not call the provider and prints the message.
C7_IncompleteCredentialsPrint ==
    (pc = "done" /\ ~AllCredentials) =>
        /\ calls.provider = 0
        /\ delivered = <<>>
        /\ stdout = <<composed.ret>>

\* Only the recipient is missing, and the message was printed.
C7_Witness ==
    /\ pc = "done"
    /\ TWILIO_SID = "set"
    /\ TWILIO_AUTH = "set"
    /\ TWILIO_FROM = "set"
    /\ WHATSAPP_TO = ""
    /\ stdout = <<composed.ret>>

\* C8. Without an insight key no insight request is sent during the
\* composition, every insight line composed is exactly the placeholder,
\* and a message that is returned has one for each holding.
C8_NoKeyNoRequest ==
    ~EnvTruthy(PERPLEXITY_API_KEY) =>
        /\ calls.insight = 0
        /\ composed.nets = 0
        /\ \A i \in DOMAIN composed.lines : i % 3 = 0 => composed.lines[i] = Placeholder
        /\ (AfterCompose /\ composed.exc = "none" /\ IsList(ExtractHoldings(holdings_json))) =>
              Len(composed.lines) = 1 + 3 * Len(ExtractHoldings(holdings_json).val)

\* Two holdings were composed without a key.
C8_Witness ==
    /\ ~EnvTruthy(PERPLEXITY_API_KEY)
    /\ composed.exc = "none"
    /\ Len(composed.lines) = 7
    /\ composed.lines[3] = Placeholder
    /\ composed.lines[6] = Placeholder

\* The line the composer appends for the insight the call returned.
InsightLineFor(ask) == BlockWith(<<>>, ask).lines[2]

\* C10. The insight line is the placeholder exactly when the key is absent
\* or the request failed. A successful request with a well-formed body
\* returns a non-empty string, "." when the body carries no text.
C10_PlaceholderOnlyWithoutRequest ==
    pc = "asked" =>
        /\ insight.exc = "none" =>
              (InsightLineFor(insight) = Placeholder
                  <=> (~EnvTruthy(PERPLEXITY_API_KEY) \/ resp[1].status # "ok"))
        /\ (EnvTruthy(PERPLEXITY_API_KEY) /\ resp[1].status = "ok"
                /\ WellFormedBody(resp[1].body)) =>
              /\ insight.exc = "none"
              /\ insight.ret # <<>>
              /\ Split(SentText) = <<>> => insight.ret = <<".">>

\* A successful response with no choices came back as ".".
C10_Witness ==
    /\ pc = "asked"
    /\ EnvTruthy(PERPLEXITY_API_KEY)
    /\ resp[1] = Ok(Obj(NoKeys))
    /\ insight = AskResult("none", <<".">>, TRUE)

\* No trigger is lost: a job is due, or it is scheduled for the next 19:00
\* of its weekday.
TriggersKept == \A j \in Jobs : next_run[j] <= now \/ next_run[j] = NextRun(j, now)

\* C9 (the claim as stated). Each trigger starts at most one run a day,
\* whether that run fails or not, and a failed run leaves the loop alive
\* with every trigger kept. Runs are serial: the loop is one thread.
C9_AtMostOneRunPerDay ==
    /\ pc # "crashed"
    /\ TriggersKept
    /\ \A j \in Jobs : Len(startsToday[j]) <= 1

\* C9 (amended). A failed run leaves the loop alive with every trigger
\* kept, and each trigger starts at most one run a day, failed or not, but
\* for a trigger still overdue when its weekday comes round again: run
\* before 19:00 that day, it is due again at 19:00 and starts a second run.
C9_OneRunPerDayUnlessOverdue ==
    /\ pc # "crashed"
    /\ TriggersKept
    /\ \A j \in Jobs :
          \/ Len(startsToday[j]) <= 1
          \/ /\ Len(startsToday[j]) = 2
             /\ Weekday(now) = j
             /\ TickOfDay(startsToday[j][1]) < AtTick
             /\ TickOfDay(startsToday[j][2]) >= AtTick

\* A run failed, the loop is waiting again, and the job is scheduled for
\* next week.
C9_Witness ==
    /\ pc = "loop"
    /\ \E j \in failedToday :
          /\ Len(startsToday[j]) = 1
          /\ next_run[j] = startsToday[j][1] + DaysPerWeek * TicksPerDay
          /\ TickOfDay(startsToday[j][1]) = AtTick


=============================================================================
